---- MODULE Spec2Model ----
(***************************************************************************)
(* A model of volatility/framework/symbols/windows/mspdb.py: PdbReader,    *)
(* the reader of Microsoft PDB files.  Streams are byte sequences, the     *)
(* decoders walk them offset by offset as the code does, and a Python      *)
(* exception is an "err" field that every caller propagates.               *)
(***************************************************************************)
EXTENDS Integers, Sequences, FiniteSets, TLC

VARIABLES
    file,           \* the streams of the PDB file behind the reader's layers
    dbiheader,      \* self._dbiheader: FALSE is None
    types,          \* self.types: sequence of <<leaf_type, name, value>>
    bases,          \* self.bases
    user_types,     \* self.user_types
    enumerations,   \* self.enumerations
    symbols,        \* self.symbols
    omap_mapping,   \* self.omap_mapping: sequence of <<from_rva, to_rva>>
    sections,       \* self.sections: sequence of VirtualAddress
    last            \* the last call: its name, arguments, error and result

vars == <<file, dbiheader, types, bases, user_types, enumerations, symbols,
          omap_mapping, sections, last>>

reader == <<dbiheader, types, bases, user_types, enumerations, symbols,
            omap_mapping, sections>>

----------------------------------------------------------------------------
(* LEAF_TYPE, the enumeration of CodeView record kinds *)

LF_MODIFIER == 4097
LF_POINTER == 4098
LF_ARRAY_ST == 4099
LF_CLASS_ST == 4100
LF_STRUCTURE_ST == 4101
LF_PROCEDURE == 4104
LF_MFUNCTION == 4105
LF_ARGLIST == 4609
LF_FIELDLIST == 4611
LF_BITFIELD == 4613
LF_MEMBER_ST == 5125
LF_ST_MAX == 5376
LF_ENUMERATE == 5378
LF_ARRAY == 5379
LF_CLASS == 5380
LF_STRUCTURE == 5381
LF_UNION == 5382
LF_ENUM == 5383
LF_MEMBER == 5389
LF_STRIDED_ARRAY == 5398
LF_INTERFACE == 5401
LF_CHAR == 32768
LF_SHORT == 32769
LF_USHORT == 32770
LF_LONG == 32771
LF_ULONG == 32772

StructLeaves == {LF_CLASS, LF_CLASS_ST, LF_STRUCTURE, LF_STRUCTURE_ST, LF_INTERFACE}
ArrayLeaves == {LF_ARRAY, LF_ARRAY_ST, LF_STRIDED_ARRAY}

(* the first TypeRef that names a record of the type table *)
TypeBase == 4096

----------------------------------------------------------------------------
(* Python values *)

\* a local name bound once: In(x) with x the value of v
Let(v, In(_)) == CHOOSE r \in {In(x) : x \in {v}} : TRUE

\* None, where a string is expected: a name no stream can hold
NoneName == <<-1>>

\* truth of a name: None and '' are false
Truthy(name) == name # NoneName /\ name # <<>>

\* seq[i] as Python indexes a list: a negative index counts from the end
PyInRange(seq, i) == -Len(seq) <= i /\ i < Len(seq)
PyIndex(seq, i) == IF i >= 0 THEN seq[i + 1] ELSE seq[Len(seq) + i + 1]

\* a // b of Python, for b # 0
FloorDiv(a, b) == IF b > 0 THEN a \div b ELSE (-a) \div (-b)

\* a dict: the sequence of its <<key, value>> items in insertion order
EmptyDict == <<>>
DictKeys(d) == {d[i][1] : i \in 1..Len(d)}
DictHas(d, k) == \E i \in 1..Len(d) : d[i][1] = k
DictGet(d, k) == d[CHOOSE i \in 1..Len(d) : d[i][1] = k][2]
DictPut(d, k, v) ==
    IF DictHas(d, k) THEN [i \in 1..Len(d) |-> IF d[i][1] = k THEN <<k, v>> ELSE d[i]]
    ELSE Append(d, <<k, v>>)

\* equality of dicts does not look at the order of the items
DictEq(d, e) ==
    /\ DictKeys(d) = DictKeys(e)
    /\ \A k \in DictKeys(d) : DictGet(d, k) = DictGet(e, k)

----------------------------------------------------------------------------
(* A stream of the MSF layer: base is the offset of body[1], max the       *)
(* layer's maximum_address (the stream's length).                          *)

InStream(st, off, n) == off >= st.base /\ off + n <= st.max /\ off + n <= st.base + Len(st.body)
ByteAt(st, off) == st.body[off - st.base + 1]

\* the unsigned little-endian integer of n bytes at off
RECURSIVE ReadUnsigned(_, _, _)
ReadUnsigned(st, off, n) ==
    IF n = 0 THEN 0 ELSE ByteAt(st, off) + 256 * ReadUnsigned(st, off + 1, n - 1)

\* 256^n for n in 0..3
Pow256(n) == IF n = 0 THEN 1 ELSE IF n = 1 THEN 256 ELSE IF n = 2 THEN 65536 ELSE 16777216

\* the signed (two's complement) little-endian integer of n bytes at off
ReadSigned(st, off, n) ==
    LET top == ByteAt(st, off + n - 1)
    IN  ReadUnsigned(st, off, n - 1) + Pow256(n - 1) * (IF top >= 128 THEN top - 256 ELSE top)

\* a field no byte of which the stream holds reads as Unreadable, and using it raises
Unreadable == -1
U16(st, off) == IF InStream(st, off, 2) THEN ReadUnsigned(st, off, 2) ELSE Unreadable
U8(st, off) == IF InStream(st, off, 1) THEN ReadUnsigned(st, off, 1) ELSE Unreadable

\* the bytes body[from..to] by offset
Bytes(st, off, n) == [i \in 1..n |-> ByteAt(st, off + i - 1)]

----------------------------------------------------------------------------
(* parse_string *)

\* the number of bytes before the first NUL at off, at most size, within the stream
RECURSIVE CStrLen(_, _, _)
CStrLen(st, off, size) ==
    IF size <= 0 \/ ~InStream(st, off, 1) \/ ByteAt(st, off) = 0 THEN 0
    ELSE 1 + CStrLen(st, off + 1, size - 1)

\* the prefix of s before its first NUL
RECURSIVE UpToNul(_)
UpToNul(s) == IF s = <<>> \/ Head(s) = 0 THEN <<>> ELSE <<Head(s)>> \o UpToNul(Tail(s))

parse_string(st, off, parse_as_pascal, size) ==
    IF ~parse_as_pascal
    THEN LET n == CStrLen(st, off, size)
         IN  IF n < size /\ ~InStream(st, off + n, 1)
             THEN [err |-> "InvalidAddress", name |-> <<>>]
             ELSE [err |-> "ok", name |-> Bytes(st, off, n)]
    ELSE IF ~InStream(st, off, 1) THEN [err |-> "InvalidAddress", name |-> <<>>]
         ELSE LET n == ByteAt(st, off)
              IN  IF ~InStream(st, off + 1, n) THEN [err |-> "InvalidAddress", name |-> <<>>]
                  ELSE [err |-> "ok", name |-> UpToNul(Bytes(st, off + 1, n))]

----------------------------------------------------------------------------
(* consume_padding *)

consume_padding(st, offset) ==
    IF ~InStream(st, offset, 1) THEN [err |-> "InvalidAddress", pad |-> 0]
    ELSE LET val == ByteAt(st, offset)
         IN  IF (val \div 16) = 0 THEN [err |-> "ok", pad |-> 0]
             ELSE [err |-> "ok", pad |-> val % 16]

----------------------------------------------------------------------------
(* determine_extended_value: voff is the offset of the inline 16-bit field *)

ExtWidth(tag) ==
    IF tag = LF_CHAR THEN 1
    ELSE IF tag \in {LF_SHORT, LF_USHORT} THEN 2
    ELSE 4

\* a decoder that takes the inline field as the value whatever it holds
determine_extended_value_inline(st, leaf_type, voff, length) ==
    LET v == U16(st, voff)
        name == parse_string(st, voff + 2, leaf_type < LF_ST_MAX, length)
    IN  IF v = Unreadable THEN [err |-> "InvalidAddress"]
        ELSE IF name.err # "ok" THEN [err |-> name.err]
        ELSE [err |-> "ok", name |-> name.name, value |-> v, excess |-> 0, name_at |-> voff + 2]

determine_extended_value(st, leaf_type, voff, length) ==
    Let(U16(st, voff), LAMBDA v :
    LET offset == voff + 2
    IN  IF v = Unreadable THEN [err |-> "InvalidAddress"]
        ELSE IF v >= LF_CHAR /\ v \notin {LF_CHAR, LF_SHORT, LF_USHORT, LF_LONG, LF_ULONG}
        THEN [err |-> "TypeError"]
        ELSE IF v >= LF_CHAR /\ ~InStream(st, offset, ExtWidth(v))
        THEN [err |-> "InvalidAddress"]
        ELSE LET value == IF v < LF_CHAR THEN v
                          ELSE IF v \in {LF_CHAR, LF_SHORT, LF_LONG}
                          THEN ReadSigned(st, offset, ExtWidth(v))
                          ELSE ReadUnsigned(st, offset, ExtWidth(v))
                 excess == IF v < LF_CHAR THEN 0 ELSE ExtWidth(v)
                 name_at == offset + excess
             IN  Let(parse_string(st, name_at, leaf_type < LF_ST_MAX, length), LAMBDA name :
                 IF name.err # "ok" THEN [err |-> name.err]
                 ELSE [err |-> "ok", name |-> name.name, value |-> value,
                       excess |-> excess, name_at |-> name_at]))

----------------------------------------------------------------------------
(* omap_lookup *)

\* (address, 0) < entry, as Python orders tuples
TupleLess(address, entry) == address < entry[1] \/ (address = entry[1] /\ 0 < entry[2])

\* bisect.bisect (bisect_right) of (address, 0) in table, between lo and hi
RECURSIVE bisect(_, _, _, _)
bisect(table, address, lo, hi) ==
    IF lo >= hi THEN lo
    ELSE LET mid == (lo + hi) \div 2
         IN  IF TupleLess(address, table[mid + 1]) THEN bisect(table, address, lo, mid)
             ELSE bisect(table, address, mid + 1, hi)

omap_lookup(table, address) ==
    LET pos0 == bisect(table, address, 0, Len(table))
    IN  IF ~PyInRange(table, pos0) THEN [err |-> "IndexError", pos |-> pos0, ret |-> 0]
        ELSE LET pos == IF PyIndex(table, pos0)[1] # address THEN pos0 - 1 ELSE pos0
             IN  IF ~PyInRange(table, pos) THEN [err |-> "IndexError", pos |-> pos, ret |-> 0]
                 ELSE IF PyIndex(table, pos)[2] = 0 THEN [err |-> "ok", pos |-> pos, ret |-> 0]
                 ELSE [err |-> "ok", pos |-> pos,
                       ret |-> PyIndex(table, pos)[2] + (address - PyIndex(table, pos)[1])]

----------------------------------------------------------------------------
(* The record layouts of the PDB symbol table: the offset of each field    *)
(* from the byte after the record's leaf_type, and the size of the fixed   *)
(* part (vol.size).  A TypeRef is 16 bits wide.                            *)

SizeofLeaf == 2
StructPropertiesAt == 2
StructFieldsAt == 4
StructSizeAt == 10
SizeofStructure == 12
UnionPropertiesAt == 2
UnionFieldsAt == 4
UnionSizeAt == 6
SizeofUnion == 8
EnumPropertiesAt == 2
EnumSubtypeAt == 4
EnumFieldsAt == 6
SizeofEnum == 8
MemberFieldTypeAt == 2
MemberOffsetAt == 4
SizeofMember == 6
EnumerateValueAt == 2
SizeofEnumerate == 4
ArrayElementTypeAt == 0
ArraySizeAt == 4
ModifierSubtypeAt == 0
PointerSubtypeAt == 0
PointerAttributesAt == 2
BitfieldLengthAt == 2
BitfieldPositionAt == 3

\* a flag that no record has
NeverForward(properties) == FALSE

\* properties.forward_reference: bit 7 of the properties word
ForwardReference(properties) == (properties \div 128) % 2 = 1

\* the byte size a pointer's attributes give it: bits 13..18
PointerSize(st, off) ==
    IF InStream(st, off, 4) THEN (ReadUnsigned(st, off, 4) \div 8192) % 64 ELSE Unreadable

----------------------------------------------------------------------------
(* consume_type: the <<leaf_type, name, value>> of the record at offset    *)
(* and the number of bytes consumed                                        *)

Failed(e) == [err |-> e]

RECURSIVE consume_type(_, _, _)
RECURSIVE FieldListLoop(_, _, _, _, _, _)

\* the while loop of the LF_FIELDLIST branch
FieldListLoop(st, length, consumed, sub_offset, sub_length, fields) ==
    IF ~(length > consumed) THEN [err |-> "ok", fields |-> fields, consumed |-> consumed]
    ELSE Let(consume_type(st, sub_offset, sub_length), LAMBDA sub :
             IF sub.err # "ok" THEN Failed(sub.err)
             ELSE Let(consume_padding(st, sub_offset + sub.consumed), LAMBDA pad :
                  IF pad.err # "ok" THEN Failed(pad.err)
                  ELSE Let(<<sub.consumed + pad.pad,
                             Append(fields, <<sub.leaf, sub.name, sub.value>>)>>,
                           LAMBDA a :
                               FieldListLoop(st, length, consumed + a[1], sub_offset + a[1],
                                             sub_length - a[1], a[2]))))

consume_type(st, offset0, length) ==
    Let(U16(st, offset0), LAMBDA leaf_type :
    LET offset == offset0 + SizeofLeaf
    IN
    IF leaf_type = Unreadable THEN Failed("InvalidAddress")
    ELSE IF leaf_type \in StructLeaves THEN
        Let(determine_extended_value(st, leaf_type, offset + StructSizeAt, length), LAMBDA ext :
            IF ext.err # "ok" THEN Failed(ext.err)
            ELSE [err |-> "ok", leaf |-> leaf_type, name |-> ext.name,
                  value |-> [properties |-> U16(st, offset + StructPropertiesAt),
                             fields |-> U16(st, offset + StructFieldsAt),
                             size |-> ext.value],
                  consumed |-> length])
    ELSE IF leaf_type \in {LF_MEMBER, LF_MEMBER_ST} THEN
        Let(determine_extended_value(st, leaf_type, offset + MemberOffsetAt, length), LAMBDA ext :
            IF ext.err # "ok" THEN Failed(ext.err)
            ELSE [err |-> "ok", leaf |-> leaf_type, name |-> ext.name,
                  value |-> [field_type |-> U16(st, offset + MemberFieldTypeAt),
                             offset |-> ext.value],
                  consumed |-> SizeofLeaf + SizeofMember + Len(ext.name) + 1 + ext.excess])
    ELSE IF leaf_type = LF_MODIFIER THEN
        [err |-> "ok", leaf |-> leaf_type, name |-> NoneName,
         value |-> [subtype_index |-> U16(st, offset + ModifierSubtypeAt)],
         consumed |-> length]
    ELSE IF leaf_type = LF_POINTER THEN
        [err |-> "ok", leaf |-> leaf_type, name |-> NoneName,
         value |-> [subtype_index |-> U16(st, offset + PointerSubtypeAt),
                    size |-> PointerSize(st, offset + PointerAttributesAt)],
         consumed |-> length]
    ELSE IF leaf_type = LF_PROCEDURE THEN
        [err |-> "ok", leaf |-> leaf_type, name |-> NoneName,
         value |-> [opaque |-> TRUE], consumed |-> length]
    ELSE IF leaf_type = LF_FIELDLIST THEN
        Let(FieldListLoop(st, length, SizeofLeaf, offset, length - SizeofLeaf, <<>>),
            LAMBDA loop :
            IF loop.err # "ok" THEN Failed(loop.err)
            ELSE [err |-> "ok", leaf |-> leaf_type, name |-> NoneName,
                  value |-> loop.fields, consumed |-> loop.consumed])
    ELSE IF leaf_type = LF_BITFIELD THEN
        [err |-> "ok", leaf |-> leaf_type, name |-> NoneName,
         value |-> [underlying_type |-> U16(st, offset),
                    length |-> U8(st, offset + BitfieldLengthAt),
                    position |-> U8(st, offset + BitfieldPositionAt)],
         consumed |-> length]
    ELSE IF leaf_type \in ArrayLeaves THEN
        Let(determine_extended_value(st, leaf_type, offset + ArraySizeAt, length), LAMBDA ext :
            IF ext.err # "ok" THEN Failed(ext.err)
            ELSE [err |-> "ok", leaf |-> leaf_type, name |-> ext.name,
                  value |-> [element_type |-> U16(st, offset + ArrayElementTypeAt),
                             size |-> ext.value],
                  consumed |-> length])
    ELSE IF leaf_type \in {LF_ARGLIST, LF_ENUM} THEN
        Let(parse_string(st, offset + SizeofEnum, leaf_type < LF_ST_MAX,
                         length - SizeofEnum - SizeofLeaf), LAMBDA name :
            IF name.err # "ok" THEN Failed(name.err)
            ELSE [err |-> "ok", leaf |-> leaf_type, name |-> name.name,
                  value |-> [properties |-> U16(st, offset + EnumPropertiesAt),
                             subtype_index |-> U16(st, offset + EnumSubtypeAt),
                             fields |-> U16(st, offset + EnumFieldsAt)],
                  consumed |-> length])
    ELSE IF leaf_type = LF_ENUMERATE THEN
        Let(determine_extended_value(st, leaf_type, offset + EnumerateValueAt, length), LAMBDA ext :
            IF ext.err # "ok" THEN Failed(ext.err)
            ELSE [err |-> "ok", leaf |-> leaf_type, name |-> ext.name,
                  value |-> [value |-> ext.value],
                  consumed |-> SizeofLeaf + SizeofEnumerate + Len(ext.name) + 1 + ext.excess])
    ELSE IF leaf_type = LF_UNION THEN
        Let(parse_string(st, offset + SizeofUnion, leaf_type < LF_ST_MAX,
                         length - SizeofUnion - SizeofLeaf), LAMBDA name :
            IF name.err # "ok" THEN Failed(name.err)
            ELSE [err |-> "ok", leaf |-> leaf_type, name |-> name.name,
                  value |-> [properties |-> U16(st, offset + UnionPropertiesAt),
                             fields |-> U16(st, offset + UnionFieldsAt),
                             size |-> U16(st, offset + UnionSizeAt)],
                  consumed |-> length])
    ELSE Failed("UnhandledLeaf"))

----------------------------------------------------------------------------
(* primatives and indirections: the base types a TypeRef below 0x1000 names *)

Base(kind, signed, size) == [endian |-> "little", kind |-> kind, signed |-> signed, size |-> size]

primatives ==
    << <<3, "void", Base("void", TRUE, 4)>>,
       <<16, "char", Base("char", TRUE, 1)>>,
       <<32, "unsigned char", Base("char", FALSE, 1)>>,
       <<104, "int8", Base("int", TRUE, 1)>>,
       <<105, "uint8", Base("int", FALSE, 1)>>,
       <<112, "char", Base("char", TRUE, 1)>>,
       <<113, "wchar", Base("int", TRUE, 2)>>,
       <<17, "short", Base("int", TRUE, 2)>>,
       <<33, "unsigned short", Base("int", FALSE, 2)>>,
       <<114, "short", Base("int", TRUE, 2)>>,
       <<115, "unsigned short", Base("int", FALSE, 2)>>,
       <<18, "long", Base("int", TRUE, 4)>>,
       <<34, "unsigned long", Base("int", FALSE, 4)>>,
       <<116, "int", Base("int", TRUE, 4)>>,
       <<117, "unsigned int", Base("int", FALSE, 4)>>,
       <<19, "long long", Base("int", TRUE, 8)>>,
       <<35, "unsigned long long", Base("int", FALSE, 8)>>,
       <<118, "long long", Base("int", TRUE, 8)>>,
       <<119, "unsigned long long", Base("int", FALSE, 8)>>,
       <<20, "int128", Base("int", TRUE, 16)>>,
       <<36, "uint128", Base("int", FALSE, 16)>>,
       <<120, "int128", Base("int", TRUE, 16)>>,
       <<121, "uint128", Base("int", FALSE, 16)>>,
       <<70, "f16", Base("float", TRUE, 2)>>,
       <<64, "f32", Base("float", TRUE, 4)>>,
       <<69, "f32pp", Base("float", TRUE, 4)>>,
       <<68, "f48", Base("float", TRUE, 6)>>,
       <<65, "double", Base("float", TRUE, 8)>>,
       <<66, "f80", Base("float", TRUE, 10)>>,
       <<67, "f128", Base("float", TRUE, 16)>> >>

indirections ==
    << <<256, "pointer16", Base("int", FALSE, 2)>>,
       <<1024, "pointer32", Base("int", FALSE, 4)>>,
       <<1536, "pointer", Base("int", FALSE, 8)>> >>

\* table[code] of a table above: is the code a key, and its <<name, base>>
TableHas(table, code) == \E i \in 1..Len(table) : table[i][1] = code
TableGet(table, code) == table[CHOOSE i \in 1..Len(table) : table[i][1] = code]

\* index & 0xff and index & 0xf00
LowByte(index) == index % 256
Indirection(index) == ((index \div 256) % 16) * 256

----------------------------------------------------------------------------
(* ForwardArrayCount, and the int that replaces it *)

ForwardArrayCount(size, element_type) ==
    [cls |-> "ForwardArrayCount", size |-> size, element_type |-> element_type]
PyInt(n) == [cls |-> "int", value |-> n]

\* a Python list where a descriptor dict is expected
RawList(value) == [kind |-> "<list>", list |-> value]

----------------------------------------------------------------------------
(* get_type_from_index: fuel is the depth of recursion left; a chain of    *)
(* references longer than the table is a cycle, which never returns.       *)

RECURSIVE get_type_from_index(_, _, _, _)
get_type_from_index(T, B, index, fuel) ==
    IF index = Unreadable THEN [err |-> "InvalidAddress", bases |-> B]
    ELSE IF fuel = 0 THEN [err |-> "RecursionError", bases |-> B]
    ELSE IF index < TypeBase THEN
        IF ~TableHas(primatives, LowByte(index)) THEN [err |-> "KeyError", bases |-> B]
        ELSE Let(TableGet(primatives, LowByte(index)), LAMBDA p :
             Let(DictPut(B, p[2], p[3]), LAMBDA B1 :
             LET result == [kind |-> "base", name |-> p[2]]
                 indirection == Indirection(index)
             IN  IF indirection = 0 THEN [err |-> "ok", bases |-> B1, result |-> result]
                 ELSE IF ~TableHas(indirections, indirection)
                 THEN [err |-> "KeyError", bases |-> B1]
                 ELSE LET q == TableGet(indirections, indirection)
                      IN  [err |-> "ok", bases |-> DictPut(B1, q[2], q[3]),
                           result |-> [kind |-> q[2], subtype |-> result]]))
    ELSE IF ~PyInRange(T, index - TypeBase) THEN [err |-> "IndexError", bases |-> B]
    ELSE
        LET leaf_type == T[index - TypeBase + 1][1]
            name == T[index - TypeBase + 1][2]
            value == T[index - TypeBase + 1][3]
        IN
        IF leaf_type = LF_MODIFIER THEN get_type_from_index(T, B, value.subtype_index, fuel - 1)
        ELSE IF leaf_type \in ArrayLeaves THEN
            IF value.element_type = Unreadable THEN [err |-> "InvalidAddress", bases |-> B]
            ELSE Let(get_type_from_index(T, B, value.element_type, fuel - 1), LAMBDA sub :
                     IF sub.err # "ok" THEN sub
                     ELSE [err |-> "ok", bases |-> sub.bases,
                           result |-> [count |-> ForwardArrayCount(value.size, value.element_type),
                                       kind |-> "array", subtype |-> sub.result]])
        ELSE IF leaf_type = LF_BITFIELD THEN
            Let(get_type_from_index(T, B, value.underlying_type, fuel - 1), LAMBDA sub :
                IF sub.err # "ok" THEN sub
                ELSE IF value.length = Unreadable \/ value.position = Unreadable
                THEN [err |-> "InvalidAddress", bases |-> sub.bases]
                ELSE [err |-> "ok", bases |-> sub.bases,
                      result |-> [kind |-> "bitfield", type |-> sub.result,
                                  bit_length |-> value.length, bit_position |-> value.position]])
        ELSE IF leaf_type = LF_POINTER THEN
            Let(get_type_from_index(T, B, value.subtype_index, fuel - 1), LAMBDA sub :
                IF sub.err # "ok" THEN sub
                ELSE [err |-> "ok", bases |-> sub.bases,
                      result |-> [kind |-> "pointer", subtype |-> sub.result]])
        ELSE IF leaf_type = LF_PROCEDURE
        THEN [err |-> "ok", bases |-> B, result |-> [kind |-> "function"]]
        ELSE IF leaf_type = LF_UNION
        THEN [err |-> "ok", bases |-> B, result |-> [kind |-> "union", name |-> name]]
        ELSE IF leaf_type = LF_ENUM
        THEN [err |-> "ok", bases |-> B, result |-> [kind |-> "enum", name |-> name]]
        ELSE IF leaf_type = LF_FIELDLIST
        THEN [err |-> "ok", bases |-> B, result |-> RawList(value)]
        ELSE IF ~Truthy(name) THEN [err |-> "ValueError", bases |-> B]
        ELSE [err |-> "ok", bases |-> B, result |-> [kind |-> "struct", name |-> name]]

----------------------------------------------------------------------------
(* get_size_from_index *)

RECURSIVE get_size_from_index(_, _, _)
get_size_from_index(T, index, fuel) ==
    IF index = Unreadable THEN [err |-> "InvalidAddress"]
    ELSE IF fuel = 0 THEN [err |-> "RecursionError"]
    ELSE IF index < TypeBase THEN
        IF Indirection(index) # 0 THEN
            IF ~TableHas(indirections, Indirection(index)) THEN [err |-> "KeyError"]
            ELSE [err |-> "ok", size |-> TableGet(indirections, Indirection(index))[3].size]
        ELSE IF ~TableHas(primatives, LowByte(index)) THEN [err |-> "KeyError"]
        ELSE [err |-> "ok", size |-> TableGet(primatives, LowByte(index))[3].size]
    ELSE IF ~PyInRange(T, index - TypeBase) THEN [err |-> "IndexError"]
    ELSE
        LET leaf_type == T[index - TypeBase + 1][1]
            value == T[index - TypeBase + 1][3]
        IN
        IF leaf_type \in StructLeaves \cup {LF_UNION} THEN
            IF value.properties = Unreadable THEN [err |-> "InvalidAddress"]
            ELSE IF ~ForwardReference(value.properties)
            THEN IF value.size = Unreadable THEN [err |-> "InvalidAddress"]
                 ELSE [err |-> "ok", size |-> value.size]
            ELSE [err |-> "ok", size |-> 1]
        ELSE IF leaf_type \in ArrayLeaves THEN [err |-> "ok", size |-> value.size]
        ELSE IF leaf_type \in {LF_MODIFIER, LF_ENUM}
        THEN get_size_from_index(T, value.subtype_index, fuel - 1)
        ELSE IF leaf_type = LF_MEMBER THEN get_size_from_index(T, value.field_type, fuel - 1)
        ELSE IF leaf_type = LF_BITFIELD
        THEN get_size_from_index(T, value.underlying_type, fuel - 1)
        ELSE IF leaf_type = LF_POINTER THEN
            IF value.size = Unreadable THEN [err |-> "InvalidAddress"]
            ELSE [err |-> "ok", size |-> value.size]
        ELSE IF leaf_type = LF_PROCEDURE THEN [err |-> "ok", size |-> -1]
        ELSE [err |-> "ValueError"]

----------------------------------------------------------------------------
(* convert_fields: fields is the index into self.types, as Python indexes  *)

RECURSIVE ConvertFieldsLoop(_, _, _, _, _)
ConvertFieldsLoop(T, B, fields_struct, i, result) ==
    IF i > Len(fields_struct) THEN [err |-> "ok", bases |-> B, fields |-> result]
    ELSE LET leaf == fields_struct[i][1]
             name == fields_struct[i][2]
             member == fields_struct[i][3]
         IN  IF leaf \notin {LF_MEMBER, LF_MEMBER_ST} THEN [err |-> "AttributeError", bases |-> B]
             ELSE Let(get_type_from_index(T, B, member.field_type, Len(T) + 1), LAMBDA t :
                      IF t.err # "ok" THEN [err |-> t.err, bases |-> t.bases]
                      ELSE Let(DictPut(result, name,
                                       [offset |-> member.offset, type |-> t.result]),
                               LAMBDA put :
                                   ConvertFieldsLoop(T, t.bases, fields_struct, i + 1, put)))

convert_fields(T, B, fields) ==
    IF ~PyInRange(T, fields) THEN [err |-> "IndexError", bases |-> B]
    ELSE IF PyIndex(T, fields)[1] # LF_FIELDLIST THEN [err |-> "TypeError", bases |-> B]
    ELSE ConvertFieldsLoop(T, B, PyIndex(T, fields)[3], 1, EmptyDict)

----------------------------------------------------------------------------
(* replace_forward_references.  A dict is changed in place, so what an     *)
(* exception leaves behind is every replacement made before it.            *)

\* the ForwardArrayCount case
ReplaceCount(T, type_references, fac) ==
    LET element_type == fac.element_type
        named == element_type > TypeBase /\ PyInRange(T, element_type - TypeBase)
                 /\ Truthy(T[element_type - TypeBase + 1][2])
        name == T[element_type - TypeBase + 1][2]
    IN  IF element_type > TypeBase /\ ~PyInRange(T, element_type - TypeBase)
        THEN [err |-> "IndexError", value |-> fac]
        ELSE IF named /\ ~DictHas(type_references, name) THEN [err |-> "KeyError", value |-> fac]
        ELSE LET resolved == IF named THEN DictGet(type_references, name) + TypeBase
                             ELSE element_type
             IN  Let(get_size_from_index(T, resolved, Len(T) + 1), LAMBDA size :
                 IF size.err # "ok" THEN [err |-> size.err, value |-> fac]
                 ELSE IF size.size = 0 THEN [err |-> "ZeroDivisionError", value |-> fac]
                 ELSE [err |-> "ok", value |-> PyInt(FloorDiv(fac.size, size.size))])

\* a type descriptor
RECURSIVE ReplaceDescriptor(_, _, _)
ReplaceDescriptor(T, type_references, d) ==
    IF d.kind = "array" THEN
        Let(IF d.count.cls = "ForwardArrayCount"
            THEN ReplaceCount(T, type_references, d.count)
            ELSE [err |-> "ok", value |-> d.count], LAMBDA c :
            IF c.err # "ok" THEN [err |-> c.err, value |-> d]
            ELSE Let(ReplaceDescriptor(T, type_references, d.subtype), LAMBDA sub :
                     [err |-> sub.err,
                      value |-> [d EXCEPT !.count = c.value, !.subtype = sub.value]]))
    ELSE IF d.kind = "bitfield" THEN
        Let(ReplaceDescriptor(T, type_references, d.type), LAMBDA sub :
            [err |-> sub.err, value |-> [d EXCEPT !.type = sub.value]])
    ELSE IF d.kind \in {"pointer", "pointer16", "pointer32"} THEN
        Let(ReplaceDescriptor(T, type_references, d.subtype), LAMBDA sub :
            [err |-> sub.err, value |-> [d EXCEPT !.subtype = sub.value]])
    ELSE [err |-> "ok", value |-> d]

\* the fields dict of one user type, from item i on
RECURSIVE ReplaceFields(_, _, _, _)
ReplaceFields(T, type_references, fields, i) ==
    IF i > Len(fields) THEN [err |-> "ok", value |-> fields]
    ELSE Let(ReplaceDescriptor(T, type_references, fields[i][2].type), LAMBDA r :
         Let([fields EXCEPT ![i] = <<fields[i][1], [fields[i][2] EXCEPT !.type = r.value]>>],
             LAMBDA done :
             IF r.err # "ok" THEN [err |-> r.err, value |-> done]
             ELSE ReplaceFields(T, type_references, done, i + 1)))

\* the user_types dict, from item i on
RECURSIVE replace_forward_references(_, _, _, _)
replace_forward_references(T, type_references, ut, i) ==
    IF i > Len(ut) THEN [err |-> "ok", value |-> ut]
    ELSE Let(ReplaceFields(T, type_references, ut[i][2].fields, 1), LAMBDA r :
         Let([ut EXCEPT ![i] = <<ut[i][1], [ut[i][2] EXCEPT !.fields = r.value]>>],
             LAMBDA done :
             IF r.err # "ok" THEN [err |-> r.err, value |-> done]
             ELSE replace_forward_references(T, type_references, done, i + 1)))

----------------------------------------------------------------------------
(* process_types *)

\* dict([(name, enum.value) for _, name, enum in <field list>])
RECURSIVE EnumConstants(_, _, _)
EnumConstants(list, i, result) ==
    IF i > Len(list) THEN [err |-> "ok", constants |-> result]
    ELSE IF list[i][1] # LF_ENUMERATE THEN [err |-> "AttributeError"]
    ELSE Let(DictPut(result, list[i][2], list[i][3].value),
             LAMBDA put : EnumConstants(list, i + 1, put))

\* the value of self.enumerations[name] for an LF_ENUM record
EnumEntry(T, B, value) ==
    Let(get_type_from_index(T, B, value.subtype_index, Len(T) + 1), LAMBDA base :
        IF base.err # "ok" THEN [err |-> base.err, bases |-> base.bases]
        ELSE IF base.result.kind = "<list>" THEN [err |-> "TypeError", bases |-> base.bases]
        ELSE IF base.result.kind \notin {"base", "struct", "union", "enum"}
        THEN [err |-> "KeyError", bases |-> base.bases]
        ELSE Let(get_size_from_index(T, value.subtype_index, Len(T) + 1), LAMBDA size :
             Let(get_type_from_index(T, base.bases, value.fields, Len(T) + 1), LAMBDA list :
                 IF size.err # "ok" THEN [err |-> size.err, bases |-> base.bases]
                 ELSE IF list.err # "ok" THEN [err |-> list.err, bases |-> list.bases]
                 ELSE IF list.result.kind # "<list>" THEN [err |-> "ValueError", bases |-> list.bases]
                 ELSE Let(EnumConstants(list.result.list, 1, EmptyDict), LAMBDA c :
                          IF c.err # "ok" THEN [err |-> c.err, bases |-> list.bases]
                          ELSE [err |-> "ok", bases |-> list.bases,
                                entry |-> [base |-> base.result.name, size |-> size.size,
                                           constants |-> c.constants]]))))

\* the for loop over self.types, from index on (index counts from 1)
RECURSIVE ProcessLoop(_, _, _, _, _)
ProcessLoop(T, index, B, ut, en) ==
    IF index > Len(T) THEN [err |-> "ok", bases |-> B, user_types |-> ut, enumerations |-> en]
    ELSE
        LET leaf_type == T[index][1]
            name == T[index][2]
            value == T[index][3]
            stop(e, B1) == [err |-> e, bases |-> B1, user_types |-> ut, enumerations |-> en]
        IN
        IF leaf_type \in StructLeaves \cup {LF_UNION} THEN
            IF value.properties = Unreadable THEN stop("InvalidAddress", B)
            ELSE IF ForwardReference(value.properties) THEN ProcessLoop(T, index + 1, B, ut, en)
            ELSE IF value.size = Unreadable \/ value.fields = Unreadable
            THEN stop("InvalidAddress", B)
            ELSE Let(convert_fields(T, B, value.fields - TypeBase), LAMBDA f :
                     IF f.err # "ok" THEN stop(f.err, f.bases)
                     ELSE Let(DictPut(ut, name,
                                      [kind |-> IF leaf_type = LF_UNION THEN "union" ELSE "struct",
                                       size |-> value.size, fields |-> f.fields]),
                              LAMBDA put : ProcessLoop(T, index + 1, f.bases, put, en)))
        ELSE IF leaf_type = LF_ENUM THEN
            IF value.properties = Unreadable THEN stop("InvalidAddress", B)
            ELSE IF ForwardReference(value.properties) THEN ProcessLoop(T, index + 1, B, ut, en)
            ELSE Let(EnumEntry(T, B, value), LAMBDA e :
                     IF e.err # "ok" THEN stop(e.err, e.bases)
                     ELSE Let(DictPut(en, name, e.entry),
                              LAMBDA put : ProcessLoop(T, index + 1, e.bases, ut, put)))
        ELSE ProcessLoop(T, index + 1, B, ut, en)

process_types(T, type_references) ==
    Let(ProcessLoop(T, 1, EmptyDict, EmptyDict, EmptyDict), LAMBDA loop :
        IF loop.err # "ok" THEN loop
        ELSE Let(replace_forward_references(T, type_references, loop.user_types, 1), LAMBDA r :
                 [err |-> r.err, bases |-> loop.bases, user_types |-> r.value,
                  enumerations |-> loop.enumerations]))

----------------------------------------------------------------------------
(* read_tpi_stream *)

\* '<unnamed-tag>' and '__unnamed_', as Latin-1 bytes
UnnamedTag == <<60, 117, 110, 110, 97, 109, 101, 100, 45, 116, 97, 103, 62>>
UnnamedPrefix == <<95, 95, 117, 110, 110, 97, 109, 101, 100, 95>>

\* hex(n)[2:]
HexDigit(d) == IF d < 10 THEN 48 + d ELSE 87 + d
RECURSIVE Hex(_)
Hex(n) == IF n < 16 THEN <<HexDigit(n)>> ELSE Hex(n \div 16) \o <<HexDigit(n % 16)>>

\* the layer of stream 2: the walk starts at header_size, the first byte of body
TpiLayer(f) == [base |-> f.tpi.header.header_size, max |-> f.tpi.max, body |-> f.tpi.body]

\* the while loop: T is self.types, lengths the declared lengths of the records walked
RECURSIVE TpiLoop(_, _, _, _, _)
TpiLoop(st, offset, T, type_references, lengths) ==
    LET out(e, o) == [err |-> e, offset |-> o, types |-> T,
                      type_references |-> type_references, lengths |-> lengths]
    IN  IF ~(st.max - offset > 0) THEN out("ok", offset)
        ELSE Let(U16(st, offset), LAMBDA length :
             IF length = Unreadable THEN out("InvalidAddress", offset)
             ELSE Let(consume_type(st, offset + 2, length), LAMBDA c :
                  LET name == IF c.name = UnnamedTag
                              THEN UnnamedPrefix \o Hex(Len(T) + TypeBase)
                              ELSE c.name
                  IN  IF c.err # "ok" THEN out(c.err, offset + 2)
                      ELSE Let(<<offset + 2 + length,
                                 Append(T, <<c.leaf, name, c.value>>),
                                 DictPut(type_references, name, Len(T)),
                                 Append(lengths, length)>>,
                               LAMBDA a : TpiLoop(st, a[1], a[2], a[3], a[4]))))

\* a header check that lets index_max lie below index_min
CheckHeaderNoMax(header) ==
    IF ~(56 <= header.header_size /\ header.header_size < 1024) THEN "HeaderSize"
    ELSE IF header.index_min < 4096 THEN "IndexMin"
    ELSE "ok"

\* the header check: the error it raises, or "ok"
CheckHeader(header) ==
    IF ~(56 <= header.header_size /\ header.header_size < 1024) THEN "HeaderSize"
    ELSE IF header.index_min < 4096 THEN "IndexMin"
    ELSE IF header.index_max < header.index_min THEN "IndexMax"
    ELSE "ok"

\* a reader that goes on to process_types wherever the walk ended
read_tpi_stream_unfilled(f, T0, B0, ut0, en0) ==
    LET keep(e) == [err |-> e, types |-> T0, bases |-> B0, user_types |-> ut0,
                    enumerations |-> en0, decoded |-> FALSE, processed |-> FALSE,
                    offset |-> 0, lengths |-> <<>>]
    IN
    IF ~f.tpi.present THEN keep("NoTpiStream")
    ELSE IF CheckHeader(f.tpi.header) # "ok" THEN keep(CheckHeader(f.tpi.header))
    ELSE
        Let(TpiLoop(TpiLayer(f), f.tpi.header.header_size, <<>>, EmptyDict, <<>>), LAMBDA loop :
        IF loop.err # "ok"
        THEN [err |-> loop.err, types |-> loop.types, bases |-> B0, user_types |-> ut0,
              enumerations |-> en0, decoded |-> TRUE, processed |-> FALSE,
              offset |-> loop.offset, lengths |-> loop.lengths]
        ELSE Let(process_types(loop.types, loop.type_references), LAMBDA p :
                 [err |-> p.err, types |-> loop.types, bases |-> p.bases,
                  user_types |-> p.user_types, enumerations |-> p.enumerations,
                  decoded |-> TRUE, processed |-> TRUE,
                  offset |-> loop.offset, lengths |-> loop.lengths]))

\* the reader's fields after the call, its error, and where the walk went
read_tpi_stream(f, T0, B0, ut0, en0) ==
    LET keep(e) == [err |-> e, types |-> T0, bases |-> B0, user_types |-> ut0,
                    enumerations |-> en0, decoded |-> FALSE, processed |-> FALSE,
                    offset |-> 0, lengths |-> <<>>]
    IN
    IF ~f.tpi.present THEN keep("NoTpiStream")
    ELSE IF CheckHeader(f.tpi.header) # "ok" THEN keep(CheckHeader(f.tpi.header))
    ELSE
        Let(TpiLoop(TpiLayer(f), f.tpi.header.header_size, <<>>, EmptyDict, <<>>), LAMBDA loop :
        LET walked(e) == [err |-> e, types |-> loop.types, bases |-> B0, user_types |-> ut0,
                          enumerations |-> en0, decoded |-> TRUE, processed |-> FALSE,
                          offset |-> loop.offset, lengths |-> loop.lengths]
        IN
        IF loop.err # "ok" THEN walked(loop.err)
        ELSE IF f.tpi.max - loop.offset # 0 THEN walked("NotFilled")
        ELSE Let(process_types(loop.types, loop.type_references), LAMBDA p :
                 [err |-> p.err, types |-> loop.types, bases |-> p.bases,
                  user_types |-> p.user_types, enumerations |-> p.enumerations,
                  decoded |-> TRUE, processed |-> TRUE,
                  offset |-> loop.offset, lengths |-> loop.lengths]))

ReadTpiStream ==
    \E r \in {read_tpi_stream(file, types, bases, user_types, enumerations)} :
        /\ types' = r.types
        /\ bases' = r.bases
        /\ user_types' = r.user_types
        /\ enumerations' = r.enumerations
        /\ last' = [op |-> "read_tpi_stream", err |-> r.err, decoded |-> r.decoded,
                    processed |-> r.processed, offset |-> r.offset, lengths |-> r.lengths]
        /\ UNCHANGED <<file, dbiheader, symbols, omap_mapping, sections>>

----------------------------------------------------------------------------
(* reset *)

Reset ==
    /\ bases' = EmptyDict
    /\ user_types' = EmptyDict
    /\ enumerations' = EmptyDict
    /\ symbols' = EmptyDict
    /\ sections' = <<>>
    /\ omap_mapping' = <<>>
    /\ last' = [op |-> "reset", err |-> "ok"]
    /\ UNCHANGED <<file, dbiheader, types>>

----------------------------------------------------------------------------
(* read_dbi_stream.  file.dbi holds the fields of DBI_HEADER and of        *)
(* DBI_DBG_HEADER the code reads; file.streams the other streams by number *)

SizeofSectionHeader == 40
VirtualAddressAt == 12
SizeofOmapEntry == 8

HasStream(f, n) == n \in DOMAIN f.streams
Layer(f, n) == [base |-> 0, max |-> Len(f.streams[n]), body |-> f.streams[n]]

\* the while loop over IMAGE_SECTION_HEADERs: each section is its VirtualAddress
RECURSIVE ReadSections(_, _, _)
ReadSections(st, consumed, secs) ==
    IF ~(consumed < st.max) THEN secs
    ELSE Let(<<consumed + SizeofSectionHeader,
               Append(secs, IF InStream(st, consumed + VirtualAddressAt, 4)
                            THEN ReadUnsigned(st, consumed + VirtualAddressAt, 4)
                            ELSE Unreadable)>>,
             LAMBDA a : ReadSections(st, a[1], a[2]))

\* int.from_bytes(data[i:j], 'little'): a slice past the end is cut short
RECURSIVE FromBytes(_, _, _)
FromBytes(data, i, j) ==
    IF i >= j \/ i >= Len(data) THEN 0 ELSE data[i + 1] + 256 * FromBytes(data, i + 1, j)

\* the for loop over range(0, length, 8)
RECURSIVE ReadOmap(_, _, _, _)
ReadOmap(data, length, i, omap) ==
    IF ~(i < length) THEN omap
    ELSE Let(Append(omap, <<FromBytes(data, i, i + 4), FromBytes(data, i + 4, i + 8)>>),
             LAMBDA put : ReadOmap(data, length, i + SizeofOmapEntry, put))

read_dbi_stream(f, h0, secs0, omap0) ==
    IF ~f.dbi.present
    THEN [err |-> "NoDbiStream", dbiheader |-> h0, sections |-> secs0, omap_mapping |-> omap0]
    ELSE IF f.dbi.snSectionHdrOrig # -1 THEN
        IF ~HasStream(f, f.dbi.snSectionHdrOrig)
        THEN [err |-> "KeyError", dbiheader |-> TRUE, sections |-> <<>>, omap_mapping |-> <<>>]
        ELSE Let(ReadSections(Layer(f, f.dbi.snSectionHdrOrig), 0, <<>>), LAMBDA secs :
                 IF f.dbi.snOmapFromSrc = -1
                 THEN [err |-> "ok", dbiheader |-> TRUE, sections |-> secs, omap_mapping |-> <<>>]
                 ELSE IF ~HasStream(f, f.dbi.snOmapFromSrc)
                 THEN [err |-> "KeyError", dbiheader |-> TRUE, sections |-> secs,
                       omap_mapping |-> <<>>]
                 ELSE LET data == f.streams[f.dbi.snOmapFromSrc]
                      IN  [err |-> "ok", dbiheader |-> TRUE, sections |-> secs,
                           omap_mapping |-> ReadOmap(data, Len(data), 0, <<>>)])
    ELSE IF f.dbi.snSectionHdr # -1 THEN
        IF ~HasStream(f, f.dbi.snSectionHdr)
        THEN [err |-> "KeyError", dbiheader |-> TRUE, sections |-> <<>>, omap_mapping |-> <<>>]
        ELSE [err |-> "ok", dbiheader |-> TRUE,
              sections |-> ReadSections(Layer(f, f.dbi.snSectionHdr), 0, <<>>),
              omap_mapping |-> <<>>]
    ELSE [err |-> "ok", dbiheader |-> TRUE, sections |-> <<>>, omap_mapping |-> <<>>]

ReadDbiStream ==
    \E r \in {read_dbi_stream(file, dbiheader, sections, omap_mapping)} :
        /\ dbiheader' = r.dbiheader
        /\ sections' = r.sections
        /\ omap_mapping' = r.omap_mapping
        /\ last' = [op |-> "read_dbi_stream", err |-> r.err]
        /\ UNCHANGED <<file, types, bases, user_types, enumerations, symbols>>

----------------------------------------------------------------------------
(* read_symbol_stream *)

\* GLOBAL_SYMBOL: length, leaf_type, flags, offset, segment, name
SymLeafAt == 2
SymOffsetAt == 8
SymSegmentAt == 12
SymNameAt == 14
SizeofGlobalSymbol == 8
S_PUB32 == 4366
S_PUB32_ST == 4105

\* the while loop: syms is self.symbols, used the number of addresses computed
RECURSIVE SymbolLoop(_, _, _, _, _, _)
SymbolLoop(st, secs, omap, offset, syms, used) ==
    LET out(e) == [err |-> e, symbols |-> syms, used |-> used]
    IN
    IF ~(offset < st.max) THEN out("ok")
    ELSE
        Let(<<U16(st, offset + SymLeafAt), U16(st, offset), U16(st, offset + SymSegmentAt),
              IF InStream(st, offset + SymOffsetAt, 4)
              THEN ReadUnsigned(st, offset + SymOffsetAt, 4) ELSE Unreadable>>, LAMBDA sym :
        LET leaf_type == sym[1]
            length == sym[2]
            segment == sym[3]
            sym_offset == sym[4]
        IN
        IF leaf_type = Unreadable THEN out("InvalidAddress")
        ELSE IF leaf_type \in {S_PUB32, S_PUB32_ST} THEN
            IF length = Unreadable THEN out("InvalidAddress")
            ELSE Let(parse_string(st, offset + SymNameAt, leaf_type = S_PUB32_ST,
                                  length - SizeofGlobalSymbol - 4), LAMBDA name :
                     IF name.err # "ok" THEN out(name.err)
                     ELSE IF segment = Unreadable THEN out("InvalidAddress")
                     ELSE IF ~PyInRange(secs, segment - 1) THEN out("IndexError")
                     ELSE IF PyIndex(secs, segment - 1) = Unreadable \/ sym_offset = Unreadable
                     THEN out("InvalidAddress")
                     ELSE LET raw == PyIndex(secs, segment - 1) + sym_offset
                          IN  Let(omap_lookup(omap, raw), LAMBDA looked :
                              LET address == IF omap # <<>> THEN looked.ret ELSE raw
                              IN  IF ~Truthy(name.name)
                                  THEN SymbolLoop(st, secs, omap, offset + length + 2, syms,
                                                  used + 1)
                                  ELSE IF omap # <<>> /\ looked.err # "ok"
                                  THEN [err |-> looked.err, symbols |-> syms, used |-> used + 1]
                                  ELSE Let(DictPut(syms, name.name, [address |-> address]),
                                           LAMBDA put :
                                               SymbolLoop(st, secs, omap, offset + length + 2,
                                                          put, used + 1))))
        ELSE IF length = Unreadable THEN out("InvalidAddress")
        ELSE SymbolLoop(st, secs, omap, offset + length + 2, syms, used))

\* a reader that reads the DBI stream on every call and appends its sections
read_symbol_stream_appending(f, h0, secs0, omap0) ==
    Let(read_dbi_stream(f, h0, secs0, omap0), LAMBDA dbi :
    LET done(e, syms, used) ==
            [err |-> e, dbiheader |-> dbi.dbiheader, sections |-> secs0 \o dbi.sections,
             omap_mapping |-> dbi.omap_mapping, symbols |-> syms, used |-> used]
    IN  IF dbi.err # "ok" THEN done(dbi.err, EmptyDict, 0)
        ELSE IF ~HasStream(f, f.dbi.symrecStream) THEN done("NoSymRecStream", EmptyDict, 0)
        ELSE Let(SymbolLoop(Layer(f, f.dbi.symrecStream), secs0 \o dbi.sections,
                            dbi.omap_mapping, 0, EmptyDict, 0), LAMBDA loop :
                 done(loop.err, loop.symbols, loop.used)))

\* a reader that binds every symbol to its raw address
read_symbol_stream_raw(f, h0, secs0, omap0) ==
    Let(IF ~h0 THEN read_dbi_stream(f, h0, secs0, omap0)
        ELSE [err |-> "ok", dbiheader |-> h0, sections |-> secs0, omap_mapping |-> omap0],
        LAMBDA dbi :
    LET done(e, syms, used) ==
            [err |-> e, dbiheader |-> dbi.dbiheader, sections |-> dbi.sections,
             omap_mapping |-> dbi.omap_mapping, symbols |-> syms, used |-> used]
    IN  IF dbi.err # "ok" THEN done(dbi.err, EmptyDict, 0)
        ELSE IF ~HasStream(f, f.dbi.symrecStream) THEN done("NoSymRecStream", EmptyDict, 0)
        ELSE Let(SymbolLoop(Layer(f, f.dbi.symrecStream), dbi.sections, <<>>, 0,
                            EmptyDict, 0), LAMBDA loop :
                 done(loop.err, loop.symbols, loop.used)))

\* the reader's fields after the call; used counts the addresses computed from
\* the sections and omap_mapping the walk saw
read_symbol_stream(f, h0, secs0, omap0) ==
    Let(IF ~h0 THEN read_dbi_stream(f, h0, secs0, omap0)
        ELSE [err |-> "ok", dbiheader |-> h0, sections |-> secs0, omap_mapping |-> omap0],
        LAMBDA dbi :
    LET done(e, syms, used) ==
            [err |-> e, dbiheader |-> dbi.dbiheader, sections |-> dbi.sections,
             omap_mapping |-> dbi.omap_mapping, symbols |-> syms, used |-> used]
    IN  IF dbi.err # "ok" THEN done(dbi.err, EmptyDict, 0)
        ELSE IF ~HasStream(f, f.dbi.symrecStream) THEN done("NoSymRecStream", EmptyDict, 0)
        ELSE Let(SymbolLoop(Layer(f, f.dbi.symrecStream), dbi.sections,
                            dbi.omap_mapping, 0, EmptyDict, 0), LAMBDA loop :
                 done(loop.err, loop.symbols, loop.used)))

ReadSymbolStream ==
    \E r \in {read_symbol_stream(file, dbiheader, sections, omap_mapping)} :
        /\ dbiheader' = r.dbiheader
        /\ sections' = r.sections
        /\ omap_mapping' = r.omap_mapping
        /\ symbols' = r.symbols
        /\ last' = [op |-> "read_symbol_stream", err |-> r.err, used |-> r.used,
                    read_symbols |-> TRUE]
        /\ UNCHANGED <<file, types, bases, user_types, enumerations>>

----------------------------------------------------------------------------
(* read_necessary_streams and get_json *)

read_necessary_streams(f, h0, T0, B0, ut0, en0, syms0, secs0, omap0) ==
    Let(IF ut0 = EmptyDict THEN read_tpi_stream(f, T0, B0, ut0, en0)
        ELSE [err |-> "ok", types |-> T0, bases |-> B0, user_types |-> ut0,
              enumerations |-> en0], LAMBDA tpi :
    Let(IF tpi.err = "ok" /\ syms0 = EmptyDict
        THEN read_symbol_stream(f, h0, secs0, omap0)
        ELSE [err |-> tpi.err, dbiheader |-> h0, sections |-> secs0,
              omap_mapping |-> omap0, symbols |-> syms0, used |-> 0], LAMBDA sym :
        [err |-> sym.err, types |-> tpi.types, bases |-> tpi.bases,
         user_types |-> tpi.user_types, enumerations |-> tpi.enumerations,
         dbiheader |-> sym.dbiheader, sections |-> sym.sections,
         omap_mapping |-> sym.omap_mapping, symbols |-> sym.symbols, used |-> sym.used,
         read_tpi |-> ut0 = EmptyDict,
         read_symbols |-> tpi.err = "ok" /\ syms0 = EmptyDict]))

\* the assignments both calls make to the reader
Necessary(r) ==
    /\ types' = r.types
    /\ bases' = r.bases
    /\ user_types' = r.user_types
    /\ enumerations' = r.enumerations
    /\ dbiheader' = r.dbiheader
    /\ sections' = r.sections
    /\ omap_mapping' = r.omap_mapping
    /\ symbols' = r.symbols
    /\ UNCHANGED file

ReadNecessaryStreams ==
    \E r \in {read_necessary_streams(file, dbiheader, types, bases, user_types, enumerations,
                                     symbols, sections, omap_mapping)} :
        /\ Necessary(r)
        /\ last' = [op |-> "read_necessary_streams", err |-> r.err, used |-> r.used,
                    read_tpi |-> r.read_tpi, read_symbols |-> r.read_symbols]

GetJson ==
    \E r \in {read_necessary_streams(file, dbiheader, types, bases, user_types, enumerations,
                                     symbols, sections, omap_mapping)} :
        /\ Necessary(r)
        /\ last' = [op |-> "get_json", err |-> r.err, used |-> r.used,
                    read_tpi |-> r.read_tpi, read_symbols |-> r.read_symbols,
                    repeated |-> last.op = "get_json" /\ last.err = "ok",
                    ret |-> IF r.err # "ok" THEN EmptyDict
                            ELSE << <<"user_types", r.user_types>>,
                                    <<"enums", r.enumerations>>,
                                    <<"base_types", r.bases>>,
                                    <<"symbols", r.symbols>> >>]

----------------------------------------------------------------------------
(* omap_lookup and consume_padding, called on the reader as it stands *)

OmapLookup(address) ==
    /\ last' = [op |-> "omap_lookup", address |-> address]
                   @@ omap_lookup(omap_mapping, address)
    /\ UNCHANGED <<file, reader>>

ConsumePadding(offset) ==
    /\ last' = [op |-> "consume_padding", offset |-> offset]
                   @@ consume_padding(TpiLayer(file), offset)
    /\ UNCHANGED <<file, reader>>

ConsumeType(offset, length) ==
    /\ last' = [op |-> "consume_type", offset |-> offset, length |-> length]
                   @@ consume_type(TpiLayer(file), offset, length)
    /\ UNCHANGED <<file, reader>>

----------------------------------------------------------------------------
(* Writing a PDB stream: the byte layouts the decoders above read *)

\* get_type_from_index and get_size_from_index, called on the reader as it stands
GetTypeFromIndex(index) ==
    \E r \in {get_type_from_index(types, bases, index, Len(types) + 1)} :
        /\ bases' = r.bases
        /\ last' = [op |-> "get_type_from_index", index |-> index] @@ r
        /\ UNCHANGED <<file, dbiheader, types, user_types, enumerations, symbols,
                       omap_mapping, sections>>

GetSizeFromIndex(index) ==
    /\ last' = [op |-> "get_size_from_index", index |-> index]
                   @@ get_size_from_index(types, index, Len(types) + 1)
    /\ UNCHANGED <<file, reader>>

RECURSIVE LeBytes(_, _)
LeBytes(n, w) == IF w = 0 THEN <<>> ELSE <<n % 256>> \o LeBytes(n \div 256, w - 1)
Le16(n) == LeBytes(n, 2)
Le32(n) == LeBytes(n, 4)

\* a name as the leaf type stores it: a Pascal string below LF_ST_MAX, else a C string
NameBytes(leaf, name) == IF leaf < LF_ST_MAX THEN <<Len(name)>> \o name ELSE name \o <<0>>

\* an extended value [tag, n]: tag 0 is the inline value n, any other tag is followed
\* by n in two's complement on the tag's width
ExtValue(e) ==
    IF e.tag = 0 THEN Le16(e.n)
    ELSE Le16(e.tag) \o LeBytes(e.n, ExtWidth(e.tag))
Inline(n) == [tag |-> 0, n |-> n]

\* n bytes of padding: 0xF0 + n, ..., 0xF1
RECURSIVE Pad(_)
Pad(n) == IF n = 0 THEN <<>> ELSE <<240 + n>> \o Pad(n - 1)

RecStructure(leaf, properties, fields, size, name) ==
    Le16(leaf) \o Le16(1) \o Le16(properties) \o Le16(fields) \o Le16(0) \o Le16(0)
        \o ExtValue(size) \o NameBytes(leaf, name)
RecUnion(properties, fields, size, name) ==
    Le16(LF_UNION) \o Le16(1) \o Le16(properties) \o Le16(fields)
        \o ExtValue(size) \o NameBytes(LF_UNION, name)
RecEnum(properties, subtype, fields, name) ==
    Le16(LF_ENUM) \o Le16(1) \o Le16(properties) \o Le16(subtype) \o Le16(fields)
        \o NameBytes(LF_ENUM, name)
RecMember(leaf, field_type, offset, name) ==
    Le16(leaf) \o Le16(3) \o Le16(field_type) \o ExtValue(offset) \o NameBytes(leaf, name)
RecEnumerate(value, name) ==
    Le16(LF_ENUMERATE) \o Le16(3) \o ExtValue(value) \o NameBytes(LF_ENUMERATE, name)
RecArray(leaf, element_type, size, name) ==
    Le16(leaf) \o Le16(element_type) \o Le16(35) \o ExtValue(size) \o NameBytes(leaf, name)
RecModifier(subtype) == Le16(LF_MODIFIER) \o Le16(subtype) \o Le16(1)
RecPointer(subtype, size) == Le16(LF_POINTER) \o Le16(subtype) \o Le32(size * 8192)
RecOpaque(leaf) == Le16(leaf) \o Le16(116) \o Le16(0)
RecBitfield(underlying_type, length, position) ==
    Le16(LF_BITFIELD) \o Le16(underlying_type) \o <<length, position>>

RECURSIVE Concat(_)
Concat(seqs) == IF seqs = <<>> THEN <<>> ELSE Head(seqs) \o Concat(Tail(seqs))
RecFieldList(subs) == Le16(LF_FIELDLIST) \o Concat(subs)

\* a record behind its length
WithLength(rec) == Le16(Len(rec)) \o rec

RECURSIVE Zeros(_)
Zeros(n) == IF n = 0 THEN <<>> ELSE <<0>> \o Zeros(n - 1)

\* an IMAGE_SECTION_HEADER with this VirtualAddress
SectionHeader(va) == Zeros(VirtualAddressAt) \o Le32(va) \o Zeros(SizeofSectionHeader - VirtualAddressAt - 4)

\* the OMAP stream of a table of <<from_rva, to_rva>>
RECURSIVE OmapBytes(_)
OmapBytes(table) ==
    IF table = <<>> THEN <<>>
    ELSE Le32(Head(table)[1]) \o Le32(Head(table)[2]) \o OmapBytes(Tail(table))

\* the streams of the file are numbered 1 (section headers), 2 (OMAP) and 3 (symbol
\* records).  A public symbol: flags, offset, segment, and the name as its version stores it
SymRecord(sym) ==
    WithLength(Le16(sym.leaf) \o Le32(0) \o Le32(sym.offset) \o Le16(sym.segment)
               \o (IF sym.leaf = S_PUB32_ST THEN <<Len(sym.name)>> \o sym.name
                   ELSE sym.name \o <<0>>))

RECURSIVE SymBytes(_)
SymBytes(syms) == IF syms = <<>> THEN <<>> ELSE SymRecord(Head(syms)) \o SymBytes(Tail(syms))

\* names
NameA == <<97>>
NameB == <<98>>
NameFOO == <<70, 79, 79>>
NameBAR == <<66, 65, 82>>

GoodHeader == [header_size |-> 56, index_min |-> 4096, index_max |-> 4096]

\* a file whose stream 2 has this header and body and nothing after the body
TpiFile(header, body) ==
    [tpi |-> [present |-> TRUE, header |-> header,
              max |-> header.header_size + Len(body), body |-> body],
     dbi |-> [present |-> FALSE, symrecStream |-> -1, snSectionHdrOrig |-> -1,
              snSectionHdr |-> -1, snOmapFromSrc |-> -1],
     streams |-> <<>>,
     desc |-> [made |-> "plain"]]

\* the same file, with the description of what was written into it
Described(f, desc) == [f EXCEPT !.desc = desc]

\* the reader as __init__ leaves it
Constructed ==
    /\ dbiheader = FALSE
    /\ types = <<>>
    /\ bases = EmptyDict
    /\ user_types = EmptyDict
    /\ enumerations = EmptyDict
    /\ symbols = EmptyDict
    /\ omap_mapping = <<>>
    /\ sections = <<>>
    /\ last = [op |-> "init", err |-> "ok"]

----------------------------------------------------------------------------
(* SpecOmap: omap_lookup on every sorted table and query of the bounds *)

MaxOmapEntries == 3
OmapFroms == {4096 + 32 * i : i \in 1..MaxOmapEntries}
OmapTos == {0, 20512, 12288}
OmapQueries == {f + d : f \in OmapFroms \cup {4096}, d \in {0, 5}}

SortedByFrom(table) == \A i, j \in 1..Len(table) : i < j => table[i][1] < table[j][1]
OmapTables ==
    {t \in UNION {[1..n -> OmapFroms \X OmapTos] : n \in 1..MaxOmapEntries} : SortedByFrom(t)}

\* a file with one section, this OMAP table and no symbol
OmapFileOf(table) ==
    [TpiFile(GoodHeader, <<>>) EXCEPT
        !.dbi = [present |-> TRUE, symrecStream |-> 3, snSectionHdrOrig |-> 1,
                 snSectionHdr |-> -1, snOmapFromSrc |-> 2],
        !.streams = <<SectionHeader(4096), OmapBytes(table), <<>>>>,
        !.desc = [made |-> "omap", table |-> table]]

\* the reader after read_dbi_stream on such a file
InitOmap ==
    /\ file \in {OmapFileOf(table) : table \in OmapTables}
    /\ \E r \in {read_dbi_stream(file, FALSE, <<>>, <<>>)} :
           /\ dbiheader = r.dbiheader
           /\ sections = r.sections
           /\ omap_mapping = r.omap_mapping
           /\ last = [op |-> "read_dbi_stream", err |-> r.err]
    /\ types = <<>>
    /\ bases = EmptyDict
    /\ user_types = EmptyDict
    /\ enumerations = EmptyDict
    /\ symbols = EmptyDict

NextOmap == \E address \in OmapQueries : OmapLookup(address)

SpecOmap == InitOmap /\ [][NextOmap]_vars

----------------------------------------------------------------------------
(* SpecPad: consume_padding on every byte *)

PadAt == GoodHeader.header_size

InitPad ==
    /\ \E b \in 0..255 : file = TpiFile(GoodHeader, <<b>>)
    /\ Constructed

NextPad == ConsumePadding(PadAt)

SpecPad == InitPad /\ [][NextPad]_vars

----------------------------------------------------------------------------
(* SpecExt: determine_extended_value and consume_type on one record that   *)
(* holds an extended value: a structure's size, a member's offset, an      *)
(* array's size or an enumerate's value.                                   *)

DetermineExtendedValue(leaf_type, voff, length) ==
    /\ last' = [op |-> "determine_extended_value", leaf_type |-> leaf_type, voff |-> voff]
                   @@ determine_extended_value(TpiLayer(file), leaf_type, voff, length)
    /\ UNCHANGED <<file, reader>>

\* the inline values tried below 0x8000, beside those next to 0x8000
MaxInline == 40
ExtTags == {LF_CHAR, LF_SHORT, LF_USHORT, LF_LONG, LF_ULONG}
NearTag == 16

ExtLeaves == {LF_STRUCTURE, LF_CLASS_ST, LF_MEMBER, LF_MEMBER_ST, LF_ARRAY, LF_ENUMERATE}

\* the values written behind each tag
ExtSamples(tag) ==
    IF tag = LF_CHAR THEN {-128, -1, 0, 1, 127}
    ELSE IF tag = LF_SHORT THEN {-32768, -1, 0, 300, 32767}
    ELSE IF tag = LF_USHORT THEN {0, 300, 32768, 65535}
    ELSE IF tag = LF_LONG THEN {-2147483647, -70000, -1, 0, 70000, 2147483647}
    ELSE IF tag = LF_ULONG THEN {0, 70000, 2147483647}
    ELSE {0, 70000}

ExtValues ==
    {Inline(n) : n \in (0..MaxInline) \cup ((LF_CHAR - NearTag)..(LF_CHAR - 1))}
        \cup UNION {{[tag |-> tag, n |-> n] : n \in ExtSamples(tag)} :
                    tag \in (LF_CHAR..(LF_CHAR + NearTag)) \cup {65535}}

\* the record of leaf type leaf that holds the extended value ext before its name
ExtRecord(leaf, ext, name) ==
    IF leaf \in StructLeaves THEN RecStructure(leaf, 0, TypeBase, ext, name)
    ELSE IF leaf \in {LF_MEMBER, LF_MEMBER_ST} THEN RecMember(leaf, 116, ext, name)
    ELSE IF leaf \in ArrayLeaves THEN RecArray(leaf, 116, ext, name)
    ELSE RecEnumerate(ext, name)

\* where the record's inline 16-bit field is, from the byte after the leaf type
ExtFieldAt(leaf) ==
    IF leaf \in StructLeaves THEN StructSizeAt
    ELSE IF leaf \in {LF_MEMBER, LF_MEMBER_ST} THEN MemberOffsetAt
    ELSE IF leaf \in ArrayLeaves THEN ArraySizeAt
    ELSE EnumerateValueAt

RecordAt == GoodHeader.header_size

InitExt ==
    /\ \E leaf \in ExtLeaves, ext \in ExtValues, name \in {<<>>, NameA, NameFOO} :
           file = Described(TpiFile(GoodHeader, WithLength(ExtRecord(leaf, ext, name))),
                            [made |-> "ext", leaf |-> leaf, ext |-> ext, name |-> name])
    /\ Constructed

NextExt ==
    \/ ConsumeType(RecordAt + 2, U16(TpiLayer(file), RecordAt))
    \/ DetermineExtendedValue(file.desc.leaf,
                              RecordAt + 2 + SizeofLeaf + ExtFieldAt(file.desc.leaf),
                              U16(TpiLayer(file), RecordAt))

SpecExt == InitExt /\ [][NextExt]_vars

----------------------------------------------------------------------------
(* SpecTpi: read_tpi_stream on type tables that declare an aggregate FOO   *)
(* forward and define it, and a structure BAR with a member that is an     *)
(* array of FOO.  The file under the layer may be replaced between calls.  *)

\* the roles of the records, in the orders they are written
Orders ==
    {<<"fl", "fwd", "def", "arr", "fl2", "bar">>,
     <<"fl", "def", "fwd", "arr", "fl2", "bar">>,
     <<"fwd", "fl", "def", "arr", "fl2", "bar">>,
     <<"def", "fl", "fwd", "arr", "fl2", "bar">>,
     <<"fl", "fwd", "arr", "fl2", "bar">>}

HasRole(order, role) == \E i \in 1..Len(order) : order[i] = role
\* the TypeRef of the record with this role
RoleRef(order, role) == TypeBase + (CHOOSE i \in 1..Len(order) : order[i] = role) - 1

AggregateKinds == {LF_STRUCTURE, LF_CLASS, LF_INTERFACE, LF_UNION}
AggregateSizes == {Inline(8), Inline(4), [tag |-> LF_ULONG, n |-> 70000]}
ArrayTotals == {40}
Headers ==
    {[header_size |-> h, index_min |-> m, index_max |-> x] :
        h \in {55, 56, 1023, 1024}, m \in {4095, 4096}, x \in {4095, 4096, 4097}}
\* what is added to the length the last record declares
Deltas == {-2, -1, 0, 1, 2}

RecAggregate(kind, properties, fields, size, name) ==
    IF kind = LF_UNION THEN RecUnion(properties, fields, size, name)
    ELSE RecStructure(kind, properties, fields, size, name)

\* the record that plays role in the table desc describes
TpiRecord(desc, role) ==
    IF role = "fl" THEN RecFieldList(<<RecMember(LF_MEMBER, 116, Inline(0), NameA)>>)
    ELSE IF role = "fwd" THEN RecAggregate(desc.kind, 128, 0, Inline(0), NameFOO)
    ELSE IF role = "def"
    THEN RecAggregate(desc.kind, 0, RoleRef(desc.order, "fl"), desc.size, NameFOO)
    ELSE IF role = "arr"
    THEN RecArray(LF_ARRAY, RoleRef(desc.order, desc.elem), Inline(desc.total), <<>>)
    ELSE IF role = "fl2"
    THEN RecFieldList(<<RecMember(LF_MEMBER, RoleRef(desc.order, "arr"), Inline(0), NameB)>>)
    ELSE RecStructure(LF_STRUCTURE, 0, RoleRef(desc.order, "fl2"), Inline(desc.total), NameBAR)

\* the records behind their lengths, the last one declaring delta more than it has
RECURSIVE TpiBody(_, _)
TpiBody(desc, i) ==
    IF i > Len(desc.order) THEN <<>>
    ELSE LET rec == TpiRecord(desc, desc.order[i])
             declared == IF i = Len(desc.order) THEN Len(rec) + desc.delta ELSE Len(rec)
         IN  Le16(declared) \o rec \o TpiBody(desc, i + 1)

BaseOrder == <<"fl", "fwd", "def", "arr", "fl2", "bar">>

\* every table under the good header, and every header over the tables in BaseOrder
TpiDescs ==
    {d \in [made : {"tpi"}, kind : AggregateKinds, order : Orders, elem : {"fwd", "def"},
            size : AggregateSizes, total : ArrayTotals, header : {GoodHeader},
            delta : Deltas] :
        HasRole(d.order, d.elem)}
    \cup [made : {"tpi"}, kind : AggregateKinds, order : {BaseOrder}, elem : {"fwd"},
          size : {Inline(8)}, total : ArrayTotals, header : Headers, delta : Deltas]

TpiFileOf(desc) == Described(TpiFile(desc.header, TpiBody(desc, 1)), desc)

\* a file with no stream 2
NoTpiFile == Described([TpiFile(GoodHeader, <<>>) EXCEPT !.tpi.present = FALSE], [made |-> "absent"])

\* the files that may replace the one under the layer
RewriteDescs ==
    [made : {"tpi"}, kind : {LF_STRUCTURE}, order : {BaseOrder}, elem : {"fwd"},
     size : {Inline(4)}, total : ArrayTotals,
     header : {GoodHeader,
               [header_size |-> 55, index_min |-> 4096, index_max |-> 4096],
               [header_size |-> 56, index_min |-> 4095, index_max |-> 4096],
               [header_size |-> 56, index_min |-> 4096, index_max |-> 4095]},
     delta : {0, 1}]

FileRewritten ==
    /\ \E f \in {TpiFileOf(d) : d \in RewriteDescs} \cup {NoTpiFile} :
           /\ f # file
           /\ file' = f
    /\ last' = [op |-> "file_rewritten", err |-> "ok"]
    /\ UNCHANGED reader

InitTpi ==
    /\ file \in {TpiFileOf(d) : d \in TpiDescs} \cup {NoTpiFile}
    /\ Constructed

NextTpi ==
    \/ ReadTpiStream
    \/ FileRewritten
    \/ Reset

SpecTpi == InitTpi /\ [][NextTpi]_vars

----------------------------------------------------------------------------
(* SpecRec: read_tpi_stream, get_type_from_index and get_size_from_index   *)
(* on a table of seven records: a target record, a field list whose member *)
(* m has the target as its type, the structure FOO, the field list and the *)
(* record of the enumeration E, the field list and the record of the       *)
(* structure BAR.                                                          *)

NameM == <<109>>
NameE == <<69>>
NameX == <<88>>

\* what the record at 0x1000 is: an opaque record of a leaf type, a pointer
\* to int, or a forward-declared structure without a name
Targets == {"procedure", "mfunction", "pointer", "unnamed"}
TargetRef == TypeBase
FooListRef == TypeBase + 1
FooRef == TypeBase + 2
BarListRef == TypeBase + 5

TargetRecord(target) ==
    IF target = "procedure" THEN RecOpaque(LF_PROCEDURE)
    ELSE IF target = "mfunction" THEN RecOpaque(LF_MFUNCTION)
    ELSE IF target = "pointer" THEN RecPointer(116, 8)
    ELSE RecStructure(LF_STRUCTURE, 128, 0, Inline(0), <<>>)

RecTable(desc) ==
    <<TargetRecord(desc.target),
      RecFieldList(<<RecMember(LF_MEMBER, TargetRef, Inline(0), NameM)>>),
      RecStructure(LF_STRUCTURE, 0, desc.fields, Inline(8), NameFOO),
      RecFieldList(<<RecEnumerate(Inline(1), NameX)>>),
      RecEnum(0, 116, TypeBase + 3, NameE),
      RecFieldList(<<RecMember(LF_MEMBER, 116, Inline(0), NameA)>>),
      RecStructure(LF_STRUCTURE, 0, BarListRef, Inline(4), NameBAR)>>

RecTableLen == Len(RecTable([made |-> "rec", target |-> "pointer", fields |-> 0]))

\* the field_list of FOO: its own list, 0, the two TypeRefs just below
\* 0x1000, and the TypeRef after the last record
FieldRefs == {FooListRef, 0, TypeBase - 2, TypeBase - 1, TypeBase + RecTableLen}

RecDescs == [made : {"rec"}, target : Targets, fields : FieldRefs]

RecFileOf(desc) ==
    Described(TpiFile(GoodHeader,
                      Concat([i \in 1..RecTableLen |-> WithLength(RecTable(desc)[i])])),
              desc)

\* the TypeRefs the two lookups are called with
RecQueries == {TargetRef, FooListRef, FooRef, 116}

InitRec ==
    /\ file \in {RecFileOf(d) : d \in RecDescs}
    /\ Constructed

NextRec ==
    \/ ReadTpiStream
    \/ \E index \in RecQueries : GetTypeFromIndex(index)
    \/ \E index \in RecQueries : GetSizeFromIndex(index)
    \/ Reset

SpecRec == InitRec /\ [][NextRec]_vars

----------------------------------------------------------------------------
(* SpecDbi: read_dbi_stream and reset on files whose OMAP stream holds up  *)
(* to MaxOmapEntries entries of distinct from_rva, in any order.           *)

OmapStreams ==
    {t \in UNION {[1..n -> OmapFroms \X OmapTos] : n \in 1..MaxOmapEntries} :
        \A i, j \in 1..Len(t) : i # j => t[i][1] # t[j][1]}

InitDbi ==
    /\ file \in {OmapFileOf(table) : table \in OmapStreams}
    /\ Constructed

NextDbi ==
    \/ ReadDbiStream
    \/ Reset

SpecDbi == InitDbi /\ [][NextDbi]_vars

----------------------------------------------------------------------------
(* SpecSym: read_symbol_stream, read_dbi_stream and reset on files with    *)
(* MaxSections sections, an OMAP table or none, and up to two records in   *)
(* the symbol stream, or one of three longer streams.                      *)

\* the VirtualAddress of section i
SectionAddress(i) == 4096 * i
OmapTable == <<<<4128, 20512>>, <<4160, 0>>, <<12288, 28672>>>>

MaxSections == 2

\* a leaf type that is neither of the two public symbol records
OtherLeaf == S_PUB32 + 1

SymbolPool ==
    [leaf : {S_PUB32, S_PUB32_ST, OtherLeaf}, offset : {37, 69}, segment : 1..MaxSections,
     name : {NameA, NameB}]

Pub(leaf, offset, name) == [leaf |-> leaf, offset |-> offset, segment |-> 1, name |-> name]

SymbolStreams ==
    {<<>>} \cup {<<sym>> : sym \in SymbolPool}
        \cup {<<sym, other>> : sym \in SymbolPool, other \in SymbolPool}
        \cup {<<Pub(S_PUB32, 37, NameA), Pub(OtherLeaf, 37, NameB), Pub(S_PUB32_ST, 69, NameB)>>,
              <<Pub(S_PUB32, 37, NameA), Pub(S_PUB32_ST, 69, NameB), Pub(S_PUB32, 69, NameA)>>,
              <<Pub(OtherLeaf, 37, NameA), Pub(S_PUB32, 37, NameA), Pub(OtherLeaf, 69, NameA)>>}

SymDescs == [made : {"sym"}, omap : BOOLEAN, syms : SymbolStreams]

SymFileOf(desc) ==
    [TpiFile(GoodHeader, <<>>) EXCEPT
        !.dbi = [present |-> TRUE, symrecStream |-> 3, snSectionHdrOrig |-> 1,
                 snSectionHdr |-> -1, snOmapFromSrc |-> IF desc.omap THEN 2 ELSE -1],
        !.streams = <<Concat([i \in 1..MaxSections |-> SectionHeader(SectionAddress(i))]),
                      IF desc.omap THEN OmapBytes(OmapTable) ELSE <<>>,
                      SymBytes(desc.syms)>>,
        !.desc = desc]

InitSym ==
    /\ file \in {SymFileOf(d) : d \in SymDescs}
    /\ Constructed

NextSym ==
    \/ ReadSymbolStream
    \/ ReadDbiStream
    \/ Reset

SpecSym == InitSym /\ [][NextSym]_vars

----------------------------------------------------------------------------
(* Spec: the calls a user makes on one PdbReader over a file that has the  *)
(* type table of BaseOrder, section headers, an OMAP table or none, and    *)
(* public symbols.                                                         *)

PublicSymbols ==
    [leaf : {S_PUB32, S_PUB32_ST}, offset : {37, 69}, segment : 1..MaxSections, name : {NameA}]
SymbolLists ==
    {<<>>} \cup {<<sym>> : sym \in PublicSymbols}
        \cup {<<[leaf |-> S_PUB32, offset |-> 37, segment |-> 1, name |-> NameA],
                [leaf |-> S_PUB32_ST, offset |-> 69, segment |-> 1, name |-> NameB]>>}

\* the type table is the one of BaseOrder, or one that defines no type
PdbDescs ==
    {d \in [made : {"pdb"}, orig : BOOLEAN, omap : BOOLEAN, nsec : 1..MaxSections,
            syms : SymbolLists, defines : BOOLEAN] :
        \A i \in 1..Len(d.syms) : d.syms[i].segment <= d.nsec}

BaseTable ==
    [made |-> "tpi", kind |-> LF_STRUCTURE, order |-> BaseOrder, elem |-> "fwd",
     size |-> Inline(8), total |-> 40, header |-> GoodHeader, delta |-> 0]

\* a field list and the forward declaration of FOO
ForwardTable == [BaseTable EXCEPT !.order = <<"fl", "fwd">>]

PdbFileOf(desc) ==
    [TpiFile(GoodHeader, TpiBody(IF desc.defines THEN BaseTable ELSE ForwardTable, 1)) EXCEPT
        !.dbi = [present |-> TRUE, symrecStream |-> 3,
                 snSectionHdrOrig |-> IF desc.orig THEN 1 ELSE -1,
                 snSectionHdr |-> IF desc.orig THEN -1 ELSE 1,
                 snOmapFromSrc |-> IF desc.omap THEN 2 ELSE -1],
        !.streams = <<Concat([i \in 1..desc.nsec |-> SectionHeader(SectionAddress(i))]),
                      IF desc.omap THEN OmapBytes(OmapTable) ELSE <<>>,
                      SymBytes(desc.syms)>>,
        !.desc = desc]

Init ==
    /\ file \in {PdbFileOf(d) : d \in PdbDescs}
    /\ Constructed

Next ==
    \/ Reset
    \/ ReadTpiStream
    \/ ReadDbiStream
    \/ ReadSymbolStream
    \/ ReadNecessaryStreams
    \/ GetJson

Spec == Init /\ [][Next]_vars

----------------------------------------------------------------------------
(* Properties of omap_lookup, under SpecOmap *)

\* the index of the entry with the greatest from_rva <= address
GreatestBelow(table, address) ==
    CHOOSE i \in 1..Len(table) :
        /\ table[i][1] <= address
        /\ \A j \in 1..Len(table) : table[j][1] <= address => table[j][1] <= table[i][1]

\* C2: on a non-empty table sorted by from_rva and a query at or above the first
\* from_rva (the last from_rva and beyond included), omap_lookup returns 0 when the
\* entry with the greatest from_rva <= query has to_rva 0, and otherwise
\* to_rva + (query - from_rva) of that entry.
C2_LookupSelectsGreatestBelow ==
    (last.op = "omap_lookup" /\ last.address >= omap_mapping[1][1]) =>
        LET e == omap_mapping[GreatestBelow(omap_mapping, last.address)]
        IN  /\ last.err = "ok"
            /\ last.ret = IF e[2] = 0 THEN 0 ELSE e[2] + (last.address - e[1])

\* C3: on a non-empty sorted table and a query below the first from_rva, omap_lookup
\* is a miss: the position is clamped to 0 and the result is 0, whatever the table holds.
C3_LookupBelowFirstIsMiss ==
    (last.op = "omap_lookup" /\ last.address < omap_mapping[1][1]) =>
        /\ last.err = "ok"
        /\ last.pos = 0
        /\ last.ret = 0

----------------------------------------------------------------------------
(* Properties of consume_padding, under SpecPad *)

\* C10: consume_padding returns b & 0x0F when the high nibble of the byte b is 0xF,
\* and 0 for every other byte.
C10_PaddingOnlyForHighNibbleF ==
    last.op = "consume_padding" =>
        LET b == file.tpi.body[1]
        IN  /\ last.err = "ok"
            /\ last.pad = IF b \div 16 = 15 THEN b % 16 ELSE 0

----------------------------------------------------------------------------
(* Properties of determine_extended_value, under SpecExt *)

\* the width the claim gives each tag
TagWidth(tag) ==
    IF tag = LF_CHAR THEN 1 ELSE IF tag = LF_SHORT THEN 2 ELSE IF tag = LF_USHORT THEN 2 ELSE 4

\* the inline 16-bit value of the record written
InlineValue(desc) == IF desc.ext.tag = 0 THEN desc.ext.n ELSE desc.ext.tag

\* what consume_type stored as the size, offset or value of the record
StoredValue(leaf, value) ==
    IF leaf \in {LF_MEMBER, LF_MEMBER_ST} THEN value.offset
    ELSE IF leaf = LF_ENUMERATE THEN value.value
    ELSE value.size

\* C8: an inline value below 0x8000 is the value itself, with no trailing bytes and
\* the name right after the 2-byte field; LF_CHAR, LF_SHORT, LF_USHORT, LF_LONG and
\* LF_ULONG stand for the i8, i16, u16, i32, u32 that follows, of width 1, 2, 2, 4, 4,
\* with the name right after it; any other value from 0x8000 on is a decode error;
\* and consume_type stores that effective value, never the tag.
C8_ExtendedValue ==
    LET desc == file.desc
        v == InlineValue(desc)
        voff == RecordAt + 2 + SizeofLeaf + ExtFieldAt(desc.leaf)
    IN  /\ last.op = "determine_extended_value" =>
               IF v < 32768
               THEN /\ last.err = "ok"
                    /\ last.value = v
                    /\ last.excess = 0
                    /\ last.name_at = voff + 2
                    /\ last.name = desc.name
               ELSE IF v \in ExtTags
               THEN /\ last.err = "ok"
                    /\ last.value = desc.ext.n
                    /\ last.excess = TagWidth(v)
                    /\ last.name_at = voff + 2 + TagWidth(v)
                    /\ last.name = desc.name
               ELSE last.err = "TypeError"
        /\ last.op = "consume_type" =>
               IF v < 32768 \/ v \in ExtTags
               THEN /\ last.err = "ok"
                    /\ last.leaf = desc.leaf
                    /\ last.name = desc.name
                    /\ StoredValue(desc.leaf, last.value) = (IF v < 32768 THEN v ELSE desc.ext.n)
               ELSE last.err = "TypeError"

\* a member whose offset is LF_LONG followed by 70000 has been decoded
C8_Witness ==
    /\ last.op = "consume_type"
    /\ last.err = "ok"
    /\ file.desc.leaf = LF_MEMBER
    /\ file.desc.ext = [tag |-> LF_LONG, n |-> 70000]
    /\ last.value.offset = 70000
    /\ last.name = NameFOO

----------------------------------------------------------------------------
(* Properties of read_tpi_stream, under SpecTpi *)

\* the sum of 2 + length over the records walked
RECURSIVE Walked(_)
Walked(lengths) == IF lengths = <<>> THEN 0 ELSE 2 + Head(lengths) + Walked(Tail(lengths))

\* the last record of the file declares a length it does not have
Residual(f) == f.tpi.present /\ f.desc.delta # 0

\* C1: read_tpi_stream returns without error only when the walk from header_size,
\* advancing by 2 + length per record, ends exactly at the stream's length; when the
\* last record's declared length leaves a residual it raises, process_types is not
\* run, and user_types and enumerations are what they were before the call.
C1_ExactFill ==
    [][ReadTpiStream =>
        /\ last'.err = "ok" =>
               /\ last'.offset = file.tpi.max
               /\ file.tpi.header.header_size + Walked(last'.lengths) = file.tpi.max
        /\ Residual(file) =>
               /\ last'.err # "ok"
               /\ ~last'.processed
               /\ user_types' = user_types
               /\ enumerations' = enumerations]_vars

\* a stream whose last record overruns it was read after a good one, and raised
C1_Witness ==
    /\ last.op = "read_tpi_stream"
    /\ last.err = "NotFilled"
    /\ file.desc.delta = 1
    /\ last.offset = file.tpi.max + 1
    /\ DictHas(user_types, NameBAR)

\* bad header: the TPI header violates one of its three bounds
HeaderViolated(header) ==
    \/ ~(56 <= header.header_size /\ header.header_size < 1024)
    \/ ~(header.index_min >= 4096)
    \/ ~(header.index_max >= header.index_min)

\* C7: on a file that has a TPI stream, read_tpi_stream raises before it starts to
\* decode records exactly when the header violates 56 <= header_size < 1024,
\* index_min >= 4096 or index_max >= index_min, and then types, user_types,
\* enumerations and bases are what they were before the call.
C7_HeaderCheck ==
    [][ReadTpiStream /\ file.tpi.present =>
        /\ (last'.err # "ok" /\ ~last'.decoded) <=> HeaderViolated(file.tpi.header)
        /\ HeaderViolated(file.tpi.header) =>
               /\ last'.lengths = <<>>
               /\ UNCHANGED <<types, user_types, enumerations, bases>>]_vars

\* a file with index_max below index_min was read after a good one, and raised
C7_Witness ==
    /\ last.op = "read_tpi_stream"
    /\ last.err = "IndexMax"
    /\ file.tpi.header.index_max < file.tpi.header.index_min
    /\ types # <<>>
    /\ DictHas(user_types, NameBAR)
    /\ bases # EmptyDict

----------------------------------------------------------------------------
(* Properties of process_types, under SpecTpi *)

IsAggregate(rec) == rec[1] \in StructLeaves \cup {LF_UNION}
\* the indexes of the aggregate records of the type table that carry this name
RecordsNamed(T, name) == {i \in 1..Len(T) : IsAggregate(T[i]) /\ T[i][2] = name}
IsForward(rec) == (rec[3].properties \div 128) % 2 = 1

\* the <<name, offset>> of the members of a field list record, in order
MembersOf(rec) == [i \in 1..Len(rec[3]) |-> <<rec[3][i][2], rec[3][i][3].offset>>]
\* the <<name, offset>> of the fields of a user type, in order
FieldsOf(ut) == [i \in 1..Len(ut.fields) |-> <<ut.fields[i][1], ut.fields[i][2].offset>>]

\* C4: after process_types, a name with a forward and a non-forward aggregate record
\* in the type table has in user_types the size and the fields of the non-forward
\* record, whichever comes first; a name with forward records only is not a key.
C4_ForwardSuperseded ==
    last.op = "read_tpi_stream" /\ last.processed =>
        /\ last.err = "ok"
        /\ \A i \in 1..Len(types) :
               IsAggregate(types[i]) =>
                   LET name == types[i][2]
                       defs == {j \in RecordsNamed(types, name) : ~IsForward(types[j])}
                       fwds == {j \in RecordsNamed(types, name) : IsForward(types[j])}
                   IN  /\ (defs # {} /\ fwds # {}) =>
                              /\ DictHas(user_types, name)
                              /\ \E j \in defs :
                                     /\ DictGet(user_types, name).size = types[j][3].size
                                     /\ FieldsOf(DictGet(user_types, name))
                                            = MembersOf(types[types[j][3].fields - TypeBase + 1])
                       /\ defs = {} => ~DictHas(user_types, name)

\* a union defined before its forward record has been processed
C4_Witness ==
    /\ last.op = "read_tpi_stream"
    /\ last.processed
    /\ file.desc.kind = LF_UNION
    /\ file.desc.order = <<"fl", "def", "fwd", "arr", "fl2", "bar">>
    /\ DictHas(user_types, NameFOO)
    /\ DictGet(user_types, NameFOO).size = 8
    /\ FieldsOf(DictGet(user_types, NameFOO)) = <<<<NameA, 0>>>>

\* the descriptors of the array-typed fields of every user type
ArrayFields(ut) ==
    UNION {{ut[i][2].fields[k][2].type : k \in 1..Len(ut[i][2].fields)} : i \in 1..Len(ut)}

\* C5: after read_tpi_stream no ForwardArrayCount is left in user_types, and the
\* array of BAR, whose element names an aggregate with a non-forward record in the
\* type table, has count = total size / size of that non-forward record.
C5_ArrayCountResolved ==
    (last.op = "read_tpi_stream" /\ last.err = "ok") =>
        LET arr == types[RoleRef(file.desc.order, "arr") - TypeBase + 1]
            element == types[arr[3].element_type - TypeBase + 1]
            defs == {j \in RecordsNamed(types, element[2]) : ~IsForward(types[j])}
            field == DictGet(user_types, NameBAR).fields[1][2].type
        IN  /\ \A d \in ArrayFields(user_types) : d.kind = "array" => d.count.cls = "int"
            /\ defs # {} =>
                   \E j \in defs : field.count = PyInt(FloorDiv(arr[3].size, types[j][3].size))

\* C9: a non-forward union whose inline size field is a tag has in user_types, under
\* its own name, the wide value that follows the tag as its size.
C9_UnionSizeExtended ==
    (/\ last.op = "read_tpi_stream"
     /\ last.err = "ok"
     /\ file.desc.kind = LF_UNION
     /\ HasRole(file.desc.order, "def")
     /\ file.desc.size.tag # 0) =>
        /\ DictHas(user_types, NameFOO)
        /\ DictGet(user_types, NameFOO).size = file.desc.size.n

----------------------------------------------------------------------------
(* Properties of the reader's calls, under Spec *)

\* what a reader just constructed gets from the file
FreshDbi == read_dbi_stream(file, FALSE, <<>>, <<>>)
FreshJson ==
    read_necessary_streams(file, FALSE, <<>>, EmptyDict, EmptyDict, EmptyDict, EmptyDict,
                           <<>>, <<>>)

\* C6: in every sequence of the calls, when read_symbol_stream has run, sections and
\* omap_mapping are what read_dbi_stream parses from the file, and get_json returns
\* what it returns on a reader just constructed.
C6_SymbolsAfterDbi ==
    /\ (last.op \in {"read_symbol_stream", "read_necessary_streams", "get_json"}
            /\ last.read_symbols) =>
           /\ sections = FreshDbi.sections
           /\ omap_mapping = FreshDbi.omap_mapping
    /\ last.op = "get_json" =>
           /\ last.err = FreshJson.err
           /\ DictGet(last.ret, "symbols") = FreshJson.symbols

----------------------------------------------------------------------------
(* Properties of the opaque records, under SpecRec *)

\* the table of the file has been decoded up to its end
Decoded == Len(types) = RecTableLen

\* C11: a record whose leaf type is LF_PROCEDURE or LF_MFUNCTION does not
\* abort read_tpi_stream with 'unhandled leaf_type', and once the table is
\* decoded get_type_from_index of its TypeRef returns exactly
\* {kind: function} and get_size_from_index returns -1.
C11_FunctionsAreOpaque ==
    (file.desc.target \in {"procedure", "mfunction"} /\ file.desc.fields = FooListRef) =>
        /\ last.op = "read_tpi_stream" => (last.err # "UnhandledLeaf" /\ Decoded)
        /\ (last.op = "get_type_from_index" /\ last.index = TargetRef /\ Decoded) =>
               (last.err = "ok" /\ last.result = [kind |-> "function"])
        /\ (last.op = "get_size_from_index" /\ last.index = TargetRef /\ Decoded) =>
               (last.err = "ok" /\ last.size = -1)

\* C12: when emission reaches a record that should be named and is not, the
\* record is skipped and the decode goes on: read_tpi_stream returns, and the
\* well-formed structure BAR and enumeration E of the table are emitted.
C12_MissingNameIsSkipped ==
    (/\ file.desc.target = "unnamed"
     /\ file.desc.fields = FooListRef
     /\ last.op = "read_tpi_stream") =>
        /\ last.err = "ok"
        /\ DictHas(user_types, NameBAR)
        /\ DictHas(enumerations, NameE)

\* the field_list of FOO addresses no record of the table
FieldListMisses == file.desc.fields < TypeBase \/ file.desc.fields >= TypeBase + RecTableLen

\* C15: when the field_list of the non-forward structure FOO addresses no
\* record of the table, read_tpi_stream raises out of process_types and FOO
\* is not emitted with the fields of some other record.
C15_FieldListMissIsFatal ==
    (/\ file.desc.target \in {"procedure", "pointer"}
     /\ FieldListMisses
     /\ last.op = "read_tpi_stream") =>
        /\ last.err # "ok"
        /\ ~DictHas(user_types, NameFOO)

----------------------------------------------------------------------------
(* Properties of read_dbi_stream, under SpecDbi *)

\* C14: after read_dbi_stream, omap_mapping is sorted ascending by from_rva,
\* whatever the order of the entries in the OMAP stream.
C14_OmapStoredSorted ==
    (last.op = "read_dbi_stream" /\ last.err = "ok") => SortedByFrom(omap_mapping)

----------------------------------------------------------------------------
(* Properties of read_symbol_stream, under SpecSym *)

IsPublic(sym) == sym.leaf \in {S_PUB32, S_PUB32_ST}

\* the address a public symbol is bound to
SymbolAddress(sym, secs, omap) ==
    LET raw == secs[sym.segment] + sym.offset
    IN  IF omap = <<>> THEN raw ELSE omap_lookup(omap, raw).ret

\* the records of the stream folded in their order, a later binding of a name
\* replacing the earlier one
RECURSIVE SymbolFold(_, _, _, _)
SymbolFold(syms, secs, omap, bound) ==
    IF syms = <<>> THEN bound
    ELSE SymbolFold(Tail(syms), secs, omap,
                    IF IsPublic(Head(syms))
                    THEN DictPut(bound, Head(syms).name,
                                 [address |-> SymbolAddress(Head(syms), secs, omap)])
                    ELSE bound)

\* every public record names a section the reader has, and omap_lookup
\* returns for its address
Bindable(syms, secs, omap) ==
    \A i \in 1..Len(syms) :
        IsPublic(syms[i]) =>
            /\ syms[i].segment \in 1..Len(secs)
            /\ omap # <<>> => omap_lookup(omap, secs[syms[i].segment] + syms[i].offset).err = "ok"

----------------------------------------------------------------------------
(* Properties of get_json called twice, under Spec *)

\* the two documents have equal user_types, enums, base_types and symbols
SameDocument(d, e) ==
    /\ Len(d) = 4
    /\ Len(e) = 4
    /\ \A i \in 1..4 : d[i][1] = e[i][1] /\ DictEq(d[i][2], e[i][2])

\* C16: a call of get_json that follows a call of get_json that returned,
\* the file being the same and with no call in between, returns a document
\* equal to the first one and leaves sections and omap_mapping as they
\* were, whether it reads the streams again or skips them.
C16_GetJsonIdempotent ==
    [][(last.op = "get_json" /\ last.err = "ok" /\ last'.op = "get_json"
            /\ file' = file) =>
           /\ last'.err = "ok"
           /\ SameDocument(last'.ret, last.ret)
           /\ sections' = sections
           /\ omap_mapping' = omap_mapping]_vars

\* a second call that read the TPI stream again, user_types being empty,
\* and skipped the symbol stream, symbols being bound
C16_Witness ==
    /\ last.op = "get_json"
    /\ last.repeated
    /\ last.err = "ok"
    /\ last.read_tpi
    /\ ~last.read_symbols
    /\ symbols # EmptyDict
    /\ user_types = EmptyDict

====
